---------------------------- MODULE Spec2Model ----------------------------
(***************************************************************************)
(* Model of the trigram similarity engine in                               *)
(* src/native/trigram_nif/src/lib.rs: text normalisation, trigram          *)
(* extraction, compact trigram encoding, Jaccard scoring, and the batch    *)
(* and search operations with their sequential and parallel paths.         *)
(*                                                                         *)
(* Representation.                                                         *)
(*   - A char is its Unicode code point; a string is a sequence of chars.  *)
(*   - A trigram [u8; 3] is a sequence of three bytes.                     *)
(*   - A u32 of the checksum is the tuple of its four bytes, most          *)
(*     significant first (TLC integers are 32-bit signed).                 *)
(*   - An f32 score is the exact fraction [num, den] in lowest terms.      *)
(*     shared / total is computed in f64 and narrowed to f32; for set      *)
(*     sizes below 2^11 two different fractions differ by more than an     *)
(*     f32 rounding step, so equality and order of the f32 values are      *)
(*     equality and order of the fractions.                                *)
(***************************************************************************)
EXTENDS Integers, Sequences, FiniteSets

VARIABLES
    pc,      \* "idle": no call in progress; "running": parallel jobs in flight; "done": result ready
    op,      \* the operation called: "none", "similarity", "similarity_batch", "best_match", "score_all"
    args,    \* the arguments of the call
    sets,    \* the trigram sets built by the call (similarity: s1_set, s2_set; searches: needle_set)
    parts,   \* parallel path: the jobs the input is currently split into, left to right
    ret      \* the value returned to the caller

vars == <<pc, op, args, sets, parts, ret>>

----------------------------------------------------------------------------
(* Bounds of the explored inputs *)

\* longest first text of a similarity call, in chars
MaxTextLen == 3

\* longest second text of a similarity call that is not the first text itself
MaxOtherLen == 1

\* the chars texts are made of: space, A, a, b, e-acute (two bytes), and dotted capital I (lowercases to i + U+0307)
Alphabet == {32, 65, 97, 98, 233, 304}

\* longest list of candidates that is written out in full
MaxLen == 3

\* longest list of pairs that is written out in full
MaxPairs == 2

\* most times a range of a parallel call is halved on the way from the whole
\* input to a job (rayon stops splitting when its split budget is used up)
MaxSplitDepth == 1

\* the needles and candidates of the batch and search operations: "", "a", "A", "ab"
Words == {<<>>, <<97>>, <<65>>, <<97, 98>>}

RECURSIVE TextsOfLen(_)
TextsOfLen(n) ==
    IF n = 0 THEN {<<>>}
    ELSE {Append(t, c) : t \in TextsOfLen(n - 1), c \in Alphabet}

Texts(maxLen) == UNION {TextsOfLen(n) : n \in 0..maxLen}

----------------------------------------------------------------------------
(* Unicode facts used by the code, for the chars of the model *)

\* char::to_lowercase: the lowercase expansion of a char
to_lowercase(c) ==
    IF c \in 65..90 THEN <<c + 32>>          \* 'A'..'Z'
    ELSE IF c \in 192..222 /\ c # 215 THEN <<c + 32>>   \* Latin-1 capitals
    ELSE IF c = 304 THEN <<105, 775>>        \* 'İ' -> 'i' U+0307
    ELSE <<c>>

\* a char matched by the class [\p{L}\p{N}] of WORD_RE
IsWordChar(c) ==
    \/ c \in 48..57                          \* '0'..'9'
    \/ c \in 65..90 \/ c \in 97..122         \* ASCII letters
    \/ c \in 192..255 /\ c # 215 /\ c # 247  \* Latin-1 letters
    \/ c \in {170, 181, 186}                \* Latin-1 ordinal indicators, micro sign
    \/ c \in {178, 179, 185, 188, 189, 190} \* Latin-1 superscript digits, fractions
    \/ c = 304 \/ c = 305                    \* 'İ', 'ı'

----------------------------------------------------------------------------
(* Normaliser *)

\* the chars of one lowercase expansion that are kept (all but U+0307)
KeepLowered(lcs) == SelectSeq(lcs, LAMBDA lc : lc # 775)

\* the mutant: text is not lowercased, only U+0307 is removed
RECURSIVE pg_downcase_NoFold(_)
pg_downcase_NoFold(text) ==
    IF text = <<>> THEN <<>>
    ELSE KeepLowered(<<Head(text)>>) \o pg_downcase_NoFold(Tail(text))

RECURSIVE pg_downcase(_)
pg_downcase(text) ==
    IF text = <<>> THEN <<>>
    ELSE KeepLowered(to_lowercase(Head(text))) \o pg_downcase(Tail(text))

----------------------------------------------------------------------------
(* Compact encoder *)

\* char::encode_utf8
encode_utf8(ch) ==
    IF ch < 128 THEN <<ch>>
    ELSE IF ch < 2048 THEN <<192 + (ch \div 64), 128 + (ch % 64)>>
    ELSE IF ch < 65536
         THEN <<224 + (ch \div 4096), 128 + ((ch \div 64) % 64), 128 + (ch % 64)>>
    ELSE <<240 + (ch \div 262144), 128 + ((ch \div 4096) % 64),
           128 + ((ch \div 64) % 64), 128 + (ch % 64)>>

\* bit i of a
Bit(a, i) == (a \div (2 ^ i)) % 2

\* a ^ b on 4-bit values, tabulated
XorNibble ==
    [a \in 0..15 |-> [b \in 0..15 |->
        ((Bit(a, 0) + Bit(b, 0)) % 2) + ((Bit(a, 1) + Bit(b, 1)) % 2) * 2
        + ((Bit(a, 2) + Bit(b, 2)) % 2) * 4 + ((Bit(a, 3) + Bit(b, 3)) % 2) * 8]]

\* a ^ b on bytes
XorByte(a, b) ==
    XorNibble[a \div 16][b \div 16] * 16 + XorNibble[a % 16][b % 16]

\* a ^ b on u32 values
XorWord(a, b) == [i \in 1..4 |-> XorByte(a[i], b[i])]

PG_CRC32_TABLE == <<
    <<0, 0, 0, 0>>, <<119, 7, 48, 150>>, <<238, 14, 97, 44>>, <<153, 9, 81, 186>>,
    <<7, 109, 196, 25>>, <<112, 106, 244, 143>>, <<233, 99, 165, 53>>, <<158, 100, 149, 163>>,
    <<14, 219, 136, 50>>, <<121, 220, 184, 164>>, <<224, 213, 233, 30>>, <<151, 210, 217, 136>>,
    <<9, 182, 76, 43>>, <<126, 177, 124, 189>>, <<231, 184, 45, 7>>, <<144, 191, 29, 145>>,
    <<29, 183, 16, 100>>, <<106, 176, 32, 242>>, <<243, 185, 113, 72>>, <<132, 190, 65, 222>>,
    <<26, 218, 212, 125>>, <<109, 221, 228, 235>>, <<244, 212, 181, 81>>, <<131, 211, 133, 199>>,
    <<19, 108, 152, 86>>, <<100, 107, 168, 192>>, <<253, 98, 249, 122>>, <<138, 101, 201, 236>>,
    <<20, 1, 92, 79>>, <<99, 6, 108, 217>>, <<250, 15, 61, 99>>, <<141, 8, 13, 245>>,
    <<59, 110, 32, 200>>, <<76, 105, 16, 94>>, <<213, 96, 65, 228>>, <<162, 103, 113, 114>>,
    <<60, 3, 228, 209>>, <<75, 4, 212, 71>>, <<210, 13, 133, 253>>, <<165, 10, 181, 107>>,
    <<53, 181, 168, 250>>, <<66, 178, 152, 108>>, <<219, 187, 201, 214>>, <<172, 188, 249, 64>>,
    <<50, 216, 108, 227>>, <<69, 223, 92, 117>>, <<220, 214, 13, 207>>, <<171, 209, 61, 89>>,
    <<38, 217, 48, 172>>, <<81, 222, 0, 58>>, <<200, 215, 81, 128>>, <<191, 208, 97, 22>>,
    <<33, 180, 244, 181>>, <<86, 179, 196, 35>>, <<207, 186, 149, 153>>, <<184, 189, 165, 15>>,
    <<40, 2, 184, 158>>, <<95, 5, 136, 8>>, <<198, 12, 217, 178>>, <<177, 11, 233, 36>>,
    <<47, 111, 124, 135>>, <<88, 104, 76, 17>>, <<193, 97, 29, 171>>, <<182, 102, 45, 61>>,
    <<118, 220, 65, 144>>, <<1, 219, 113, 6>>, <<152, 210, 32, 188>>, <<239, 213, 16, 42>>,
    <<113, 177, 133, 137>>, <<6, 182, 181, 31>>, <<159, 191, 228, 165>>, <<232, 184, 212, 51>>,
    <<120, 7, 201, 162>>, <<15, 0, 249, 52>>, <<150, 9, 168, 142>>, <<225, 14, 152, 24>>,
    <<127, 106, 13, 187>>, <<8, 109, 61, 45>>, <<145, 100, 108, 151>>, <<230, 99, 92, 1>>,
    <<107, 107, 81, 244>>, <<28, 108, 97, 98>>, <<133, 101, 48, 216>>, <<242, 98, 0, 78>>,
    <<108, 6, 149, 237>>, <<27, 1, 165, 123>>, <<130, 8, 244, 193>>, <<245, 15, 196, 87>>,
    <<101, 176, 217, 198>>, <<18, 183, 233, 80>>, <<139, 190, 184, 234>>, <<252, 185, 136, 124>>,
    <<98, 221, 29, 223>>, <<21, 218, 45, 73>>, <<140, 211, 124, 243>>, <<251, 212, 76, 101>>,
    <<77, 178, 97, 88>>, <<58, 181, 81, 206>>, <<163, 188, 0, 116>>, <<212, 187, 48, 226>>,
    <<74, 223, 165, 65>>, <<61, 216, 149, 215>>, <<164, 209, 196, 109>>, <<211, 214, 244, 251>>,
    <<67, 105, 233, 106>>, <<52, 110, 217, 252>>, <<173, 103, 136, 70>>, <<218, 96, 184, 208>>,
    <<68, 4, 45, 115>>, <<51, 3, 29, 229>>, <<170, 10, 76, 95>>, <<221, 13, 124, 201>>,
    <<80, 5, 113, 60>>, <<39, 2, 65, 170>>, <<190, 11, 16, 16>>, <<201, 12, 32, 134>>,
    <<87, 104, 181, 37>>, <<32, 111, 133, 179>>, <<185, 102, 212, 9>>, <<206, 97, 228, 159>>,
    <<94, 222, 249, 14>>, <<41, 217, 201, 152>>, <<176, 208, 152, 34>>, <<199, 215, 168, 180>>,
    <<89, 179, 61, 23>>, <<46, 180, 13, 129>>, <<183, 189, 92, 59>>, <<192, 186, 108, 173>>,
    <<237, 184, 131, 32>>, <<154, 191, 179, 182>>, <<3, 182, 226, 12>>, <<116, 177, 210, 154>>,
    <<234, 213, 71, 57>>, <<157, 210, 119, 175>>, <<4, 219, 38, 21>>, <<115, 220, 22, 131>>,
    <<227, 99, 11, 18>>, <<148, 100, 59, 132>>, <<13, 109, 106, 62>>, <<122, 106, 90, 168>>,
    <<228, 14, 207, 11>>, <<147, 9, 255, 157>>, <<10, 0, 174, 39>>, <<125, 7, 158, 177>>,
    <<240, 15, 147, 68>>, <<135, 8, 163, 210>>, <<30, 1, 242, 104>>, <<105, 6, 194, 254>>,
    <<247, 98, 87, 93>>, <<128, 101, 103, 203>>, <<25, 108, 54, 113>>, <<110, 107, 6, 231>>,
    <<254, 212, 27, 118>>, <<137, 211, 43, 224>>, <<16, 218, 122, 90>>, <<103, 221, 74, 204>>,
    <<249, 185, 223, 111>>, <<142, 190, 239, 249>>, <<23, 183, 190, 67>>, <<96, 176, 142, 213>>,
    <<214, 214, 163, 232>>, <<161, 209, 147, 126>>, <<56, 216, 194, 196>>, <<79, 223, 242, 82>>,
    <<209, 187, 103, 241>>, <<166, 188, 87, 103>>, <<63, 181, 6, 221>>, <<72, 178, 54, 75>>,
    <<216, 13, 43, 218>>, <<175, 10, 27, 76>>, <<54, 3, 74, 246>>, <<65, 4, 122, 96>>,
    <<223, 96, 239, 195>>, <<168, 103, 223, 85>>, <<49, 110, 142, 239>>, <<70, 105, 190, 121>>,
    <<203, 97, 179, 140>>, <<188, 102, 131, 26>>, <<37, 111, 210, 160>>, <<82, 104, 226, 54>>,
    <<204, 12, 119, 149>>, <<187, 11, 71, 3>>, <<34, 2, 22, 185>>, <<85, 5, 38, 47>>,
    <<197, 186, 59, 190>>, <<178, 189, 11, 40>>, <<43, 180, 90, 146>>, <<92, 179, 106, 4>>,
    <<194, 215, 255, 167>>, <<181, 208, 207, 49>>, <<44, 217, 158, 139>>, <<91, 222, 174, 29>>,
    <<155, 100, 194, 176>>, <<236, 99, 242, 38>>, <<117, 106, 163, 156>>, <<2, 109, 147, 10>>,
    <<156, 9, 6, 169>>, <<235, 14, 54, 63>>, <<114, 7, 103, 133>>, <<5, 0, 87, 19>>,
    <<149, 191, 74, 130>>, <<226, 184, 122, 20>>, <<123, 177, 43, 174>>, <<12, 182, 27, 56>>,
    <<146, 210, 142, 155>>, <<229, 213, 190, 13>>, <<124, 220, 239, 183>>, <<11, 219, 223, 33>>,
    <<134, 211, 210, 212>>, <<241, 212, 226, 66>>, <<104, 221, 179, 248>>, <<31, 218, 131, 110>>,
    <<129, 190, 22, 205>>, <<246, 185, 38, 91>>, <<111, 176, 119, 225>>, <<24, 183, 71, 119>>,
    <<136, 8, 90, 230>>, <<255, 15, 106, 112>>, <<102, 6, 59, 202>>, <<17, 1, 11, 92>>,
    <<143, 101, 158, 255>>, <<248, 98, 174, 105>>, <<97, 107, 255, 211>>, <<22, 108, 207, 69>>,
    <<160, 10, 226, 120>>, <<215, 13, 210, 238>>, <<78, 4, 131, 84>>, <<57, 3, 179, 194>>,
    <<167, 103, 38, 97>>, <<208, 96, 22, 247>>, <<73, 105, 71, 77>>, <<62, 110, 119, 219>>,
    <<174, 209, 106, 74>>, <<217, 214, 90, 220>>, <<64, 223, 11, 102>>, <<55, 216, 59, 240>>,
    <<169, 188, 174, 83>>, <<222, 187, 158, 197>>, <<71, 178, 207, 127>>, <<48, 181, 255, 233>>,
    <<189, 189, 242, 28>>, <<202, 186, 194, 138>>, <<83, 179, 147, 48>>, <<36, 180, 163, 166>>,
    <<186, 208, 54, 5>>, <<205, 215, 6, 147>>, <<84, 222, 87, 41>>, <<35, 217, 103, 191>>,
    <<179, 102, 122, 46>>, <<196, 97, 74, 184>>, <<93, 104, 27, 2>>, <<42, 111, 43, 148>>,
    <<180, 11, 190, 55>>, <<195, 12, 142, 161>>, <<90, 5, 223, 27>>, <<45, 2, 239, 141>>
>>

\* one round of the loop of legacy_crc32
CrcStep(crc, byte) ==
    LET idx == XorByte(crc[1], byte)                 \* ((crc >> 24) as u8 ^ byte) & 0xFF
        table_val == PG_CRC32_TABLE[idx + 1]
    IN  XorWord(table_val, <<crc[2], crc[3], crc[4], 0>>)   \* table_val ^ (crc << 8)

RECURSIVE CrcLoop(_, _)
CrcLoop(crc, bytes) ==
    IF bytes = <<>> THEN crc
    ELSE CrcLoop(CrcStep(crc, Head(bytes)), Tail(bytes))

legacy_crc32(bytes) ==
    XorWord(CrcLoop(<<255, 255, 255, 255>>, bytes), <<255, 255, 255, 255>>)

compact_trigram(a, b, c) ==
    LET bytes == encode_utf8(a) \o encode_utf8(b) \o encode_utf8(c)
    IN  IF Len(bytes) = 3
        THEN <<bytes[1], bytes[2], bytes[3]>>
        ELSE LET crc == legacy_crc32(bytes)
             IN  <<crc[4], crc[3], crc[2]>>          \* to_le_bytes()[0..3]

----------------------------------------------------------------------------
(* Trigram extractor *)

\* WORD_RE.find_iter: the matches of [\p{L}\p{N}]+ from position i on, leftmost
\* and longest first; cur is the match being extended
RECURSIVE find_iter(_, _, _)
find_iter(text, i, cur) ==
    IF i > Len(text) THEN (IF cur = <<>> THEN <<>> ELSE <<cur>>)
    ELSE IF IsWordChar(text[i]) THEN find_iter(text, i + 1, Append(cur, text[i]))
    ELSE (IF cur = <<>> THEN <<>> ELSE <<cur>>) \o find_iter(text, i + 1, <<>>)

\* the mutant: one leading pad space instead of two
WordTrigrams_OnePad(mat) ==
    LET char_buf == <<32>> \o mat \o <<32>>
    IN  {compact_trigram(char_buf[i], char_buf[i + 1], char_buf[i + 2]) :
            i \in 1..(Len(char_buf) - 2)}

\* the trigrams one match adds to the set: char_buf and its windows(3)
WordTrigrams(mat) ==
    LET char_buf == <<32, 32>> \o mat \o <<32>>
    IN  {compact_trigram(char_buf[i], char_buf[i + 1], char_buf[i + 2]) :
            i \in 1..(Len(char_buf) - 2)}

trigrams(text) ==
    LET normalized == pg_downcase(text)
        mats == find_iter(normalized, 1, <<>>)
    IN  UNION {WordTrigrams(mats[k]) : k \in 1..Len(mats)}

----------------------------------------------------------------------------
(* Similarity scorer *)

RECURSIVE GCD(_, _)
GCD(a, b) == IF b = 0 THEN a ELSE GCD(b, a % b)

\* the f32 value of num / den (den > 0), as a fraction in lowest terms
F32(num, den) ==
    LET g == GCD(IF num < 0 THEN -num ELSE num, den)
    IN  [num |-> num \div g, den |-> den \div g]

\* comparisons of f32 values
Gt(x, y) == x.num * y.den > y.num * x.den
Ge(x, y) == x.num * y.den >= y.num * x.den

\* the mutant: an empty union scores 1.0
similarity_from_sets_EmptyIsOne(a_set, b_set) ==
    LET shared == Cardinality(a_set \cap b_set)
        total == (Cardinality(a_set) + Cardinality(b_set)) - shared
    IN  IF total = 0 THEN F32(1, 1) ELSE F32(shared, total)

\* the mutant: the union is taken to be twice the first set, less the shared part
similarity_from_sets_FirstOnly(a_set, b_set) ==
    LET shared == Cardinality(a_set \cap b_set)
        total == (Cardinality(a_set) + Cardinality(a_set)) - shared
    IN  IF total = 0 THEN F32(0, 1) ELSE F32(shared, total)

similarity_from_sets(a_set, b_set) ==
    LET shared == Cardinality(a_set \cap b_set)
        total == (Cardinality(a_set) + Cardinality(b_set)) - shared
    IN  IF total = 0 THEN F32(0, 1) ELSE F32(shared, total)

\* the value similarity(s1, s2) returns
similarity(s1, s2) == similarity_from_sets(trigrams(s1), trigrams(s2))

----------------------------------------------------------------------------
(* Batch evaluator and search reducer: what the closures compute *)

PARALLEL_THRESHOLD == 250

\* the defensive sentinel init_acc = (0, -1.0)
init_acc == [idx |-> 0, score |-> F32(-1, 1)]

\* similarity_batch, sequential path: the closure of map
SeqPairScore(pair) ==
    LET s1_set == trigrams(pair[1])
        s2_set == trigrams(pair[2])
    IN  similarity_from_sets(s1_set, s2_set)

\* the mutant: the second set is built from the first string again
ParPairScore_SameText(pair) ==
    LET s1_set == trigrams(pair[1])
        s2_set == trigrams(pair[1])
    IN  similarity_from_sets(s1_set, s2_set)

\* similarity_batch, parallel path: the closure of map
ParPairScore(pair) ==
    LET s1_set == trigrams(pair[1])
        s2_set == trigrams(pair[2])
    IN  similarity_from_sets(s1_set, s2_set)

\* best_match and score_all: the closure of map, (idx, score) of one candidate;
\* idx counts from 0
Scored(needle_set, haystacks, idx) ==
    LET haystack_set == trigrams(haystacks[idx + 1])
    IN  [idx |-> idx, score |-> similarity_from_sets(needle_set, haystack_set)]

\* the mutant: an equal score replaces the accumulator too
FoldStep_OrEqual(acc, x) == IF Ge(x.score, acc.score) THEN x ELSE acc

\* best_match, sequential path: the closure of fold
FoldStep(acc, x) == IF Gt(x.score, acc.score) THEN x ELSE acc

\* best_match, parallel path: the closure of reduce
ReduceOp(acc, x) == IF Gt(x.score, acc.score) THEN x ELSE acc

\* the mutant: a candidate scoring exactly the threshold is dropped
SeqFilter_Strict(score, min_threshold) == Gt(score, min_threshold)

\* score_all, sequential path: the closure of filter
SeqFilter(score, min_threshold) == Ge(score, min_threshold)

\* score_all, parallel path: the closure of filter
ParFilter(score, min_threshold) == Ge(score, min_threshold)

\* the mutant: equal scores compare Equal, the indices are not looked at
SortCompare_ScoreOnly(a, b) ==
    IF Gt(b.score, a.score) THEN "Greater"
    ELSE IF Gt(a.score, b.score) THEN "Less"
    ELSE "Equal"

\* score_all: the closure of sort_unstable_by;
\* score_b.partial_cmp(score_a) then idx_a.cmp(idx_b)
SortCompare(a, b) ==
    IF Gt(b.score, a.score) THEN "Greater"
    ELSE IF Gt(a.score, b.score) THEN "Less"
    ELSE IF a.idx < b.idx THEN "Less"
    ELSE IF a.idx > b.idx THEN "Greater"
    ELSE "Equal"

\* x comes before y in the output when x is from the left run and y from the
\* right one: of two elements that compare Equal the left one comes first
\* unless rightFirst
LeftGoesFirst(x, y, rightFirst) ==
    LET c == SortCompare(x, y)
    IN  c = "Less" \/ (c = "Equal" /\ ~rightFirst)

\* merge of two sorted runs: the middle element of l is placed after the
\* elements of r that go before it, and the parts before and after it are
\* merged in the same way
RECURSIVE Merge(_, _, _)
Merge(l, r, rightFirst) ==
    IF l = <<>> THEN r
    ELSE IF r = <<>> THEN l
    ELSE LET m == (Len(l) + 1) \div 2
             p == Cardinality({j \in 1..Len(r) : ~LeftGoesFirst(l[m], r[j], rightFirst)})
         IN  Merge(SubSeq(l, 1, m - 1), SubSeq(r, 1, p), rightFirst)
                 \o <<l[m]>>
                 \o Merge(SubSeq(l, m + 1, Len(l)), SubSeq(r, p + 1, Len(r)), rightFirst)

\* sort_unstable_by: v ordered by SortCompare. The order of elements that compare
\* Equal is not specified: they come out in their order in v, or reversed.
RECURSIVE sort_unstable_by(_, _)
sort_unstable_by(v, rightFirst) ==
    IF Len(v) <= 1 THEN v
    ELSE LET mid == Len(v) \div 2
         IN  Merge(sort_unstable_by(SubSeq(v, 1, mid), rightFirst),
                   sort_unstable_by(SubSeq(v, mid + 1, Len(v)), rightFirst),
                   rightFirst)

\* e, with v evaluated first (the value is e; only the order of evaluation is
\* fixed, so that a fold is evaluated from its first element on)
Evaluated(v, e) == IF v = v THEN e ELSE e

\* the sequential iterator chain of best_match over the candidates idx in
\* lo..(hi - 1): a left fold (the range is halved only to keep the evaluation
\* shallow; the candidates are still folded in from the lowest index up)
RECURSIVE SeqFold(_, _, _, _, _)
SeqFold(needle_set, haystacks, lo, hi, acc) ==
    IF lo >= hi THEN acc
    ELSE IF hi - lo = 1 THEN FoldStep(acc, Scored(needle_set, haystacks, lo))
    ELSE LET mid == lo + ((hi - lo) \div 2)
             left == SeqFold(needle_set, haystacks, lo, mid, acc)
         IN  Evaluated(left, SeqFold(needle_set, haystacks, mid, hi, left))

\* the sequential iterator chain of score_all up to collect
SeqCollectFiltered(needle_set, haystacks, min_threshold) ==
    LET all == [i \in 1..Len(haystacks) |-> Scored(needle_set, haystacks, i - 1)]
    IN  SelectSeq(all, LAMBDA x : SeqFilter(x.score, min_threshold))

----------------------------------------------------------------------------
(* The parallel path: the input is split into jobs over adjacent ranges     *)
(* lo..(hi - 1); a job folds its range from the identity; the results of    *)
(* two adjacent jobs are combined with the left one as left operand.        *)

\* a job over lo..(hi - 1), split off depth times, not run yet
Job(lo, hi, depth) == [lo |-> lo, hi |-> hi, depth |-> depth, done |-> FALSE, val |-> <<>>]

\* what one job of best_match computes over its range: the fold of its
\* candidates from the identity, from the lowest index up (the range is halved
\* only to keep the evaluation shallow)
RECURSIVE ParFold(_, _, _, _, _)
ParFold(needle_set, haystacks, lo, hi, acc) ==
    IF lo >= hi THEN acc
    ELSE IF hi - lo = 1 THEN ReduceOp(acc, Scored(needle_set, haystacks, lo))
    ELSE LET mid == lo + ((hi - lo) \div 2)
             left == ParFold(needle_set, haystacks, lo, mid, acc)
         IN  Evaluated(left, ParFold(needle_set, haystacks, mid, hi, left))

\* what one job computes over its range
LeafValue(job) ==
    IF op = "similarity_batch"
    THEN [i \in 1..(job.hi - job.lo) |-> ParPairScore(args.pairs[job.lo + i])]
    ELSE IF op = "best_match"
    THEN ParFold(sets[1], args.haystacks, job.lo, job.hi, init_acc)
    ELSE LET all == [i \in 1..(job.hi - job.lo) |->
                        Scored(sets[1], args.haystacks, job.lo + i - 1)]
         IN  SelectSeq(all, LAMBDA x : ParFilter(x.score, args.min_threshold))

\* what the results of two adjacent jobs combine to: collect keeps the order of
\* the input, reduce applies its closure
Combine(left, right) ==
    IF op = "best_match" THEN ReduceOp(left, right) ELSE left \o right

\* a job is split in the middle; whether it is depends on the thread pool
Split(k) ==
    /\ pc = "running"
    /\ ~parts[k].done
    /\ parts[k].depth < MaxSplitDepth
    /\ parts[k].hi - parts[k].lo >= 2
    /\ LET lo == parts[k].lo
           hi == parts[k].hi
           mid == lo + ((hi - lo) \div 2)
           depth == parts[k].depth + 1
       IN  parts' = SubSeq(parts, 1, k - 1) \o <<Job(lo, mid, depth), Job(mid, hi, depth)>>
                        \o SubSeq(parts, k + 1, Len(parts))
    /\ UNCHANGED <<pc, op, args, sets, ret>>

\* a worker runs a job to its end
Work(k) ==
    /\ pc = "running"
    /\ ~parts[k].done
    /\ parts' = [parts EXCEPT ![k] = [@ EXCEPT !.done = TRUE, !.val = LeafValue(parts[k])]]
    /\ UNCHANGED <<pc, op, args, sets, ret>>

\* two adjacent finished jobs are combined
Join(k) ==
    /\ pc = "running"
    /\ k < Len(parts)
    /\ parts[k].done /\ parts[k + 1].done
    /\ parts' = SubSeq(parts, 1, k - 1)
                    \o <<[lo |-> parts[k].lo, hi |-> parts[k + 1].hi, depth |-> 0, done |-> TRUE,
                          val |-> Combine(parts[k].val, parts[k + 1].val)]>>
                    \o SubSeq(parts, k + 2, Len(parts))
    /\ UNCHANGED <<pc, op, args, sets, ret>>

\* the call returns once one finished job covers the input
Finish ==
    /\ pc = "running"
    /\ Len(parts) = 1 /\ parts[1].done
    /\ \/ /\ op = "similarity_batch"
          /\ ret' = parts[1].val
       \/ /\ op = "best_match"
          /\ ret' = [tag |-> "ok", index |-> parts[1].val.idx, score |-> parts[1].val.score]
       \/ /\ op = "score_all"
          /\ \E rightFirst \in BOOLEAN : ret' = sort_unstable_by(parts[1].val, rightFirst)
    /\ pc' = "done"
    /\ UNCHANGED <<op, args, sets, parts>>

----------------------------------------------------------------------------
(* The operations *)

\* similarity_batch(pairs): lines 22-44
similarity_batch(pairs) ==
    /\ op' = "similarity_batch"
    /\ args' = [pairs |-> pairs]
    /\ sets' = <<>>
    /\ IF Len(pairs) < PARALLEL_THRESHOLD
       THEN /\ ret' = [i \in 1..Len(pairs) |-> SeqPairScore(pairs[i])]
            /\ pc' = "done"
            /\ UNCHANGED parts
       ELSE /\ parts' = <<Job(0, Len(pairs), 0)>>
            /\ pc' = "running"
            /\ UNCHANGED ret

\* the mutant: an empty list is not told apart
IsEmpty_Never(haystacks) == FALSE

\* haystacks.is_empty()
IsEmpty(haystacks) == Len(haystacks) = 0

\* best_match(needle, haystacks): lines 46-99
best_match(needle, haystacks) ==
    /\ op' = "best_match"
    /\ args' = [needle |-> needle, haystacks |-> haystacks]
    /\ IF IsEmpty(haystacks)
       THEN /\ ret' = [tag |-> "error", reason |-> "empty_list"]
            /\ sets' = <<>>
            /\ pc' = "done"
            /\ UNCHANGED parts
       ELSE LET needle_set == trigrams(needle)
            IN  /\ sets' = <<needle_set>>
                /\ IF Len(haystacks) < PARALLEL_THRESHOLD
                   THEN LET best == SeqFold(needle_set, haystacks, 0, Len(haystacks), init_acc)
                        IN  /\ ret' = [tag |-> "ok", index |-> best.idx, score |-> best.score]
                            /\ pc' = "done"
                            /\ UNCHANGED parts
                   ELSE /\ parts' = <<Job(0, Len(haystacks), 0)>>
                        /\ pc' = "running"
                        /\ UNCHANGED ret

\* score_all(needle, haystacks, min_threshold): lines 101-136
score_all(needle, haystacks, min_threshold) ==
    /\ op' = "score_all"
    /\ args' = [needle |-> needle, haystacks |-> haystacks, min_threshold |-> min_threshold]
    /\ LET needle_set == trigrams(needle)
       IN  /\ sets' = <<needle_set>>
           /\ IF Len(haystacks) < PARALLEL_THRESHOLD
              THEN /\ \E rightFirst \in BOOLEAN :
                        ret' = sort_unstable_by(
                                   SeqCollectFiltered(needle_set, haystacks, min_threshold),
                                   rightFirst)
                   /\ pc' = "done"
                   /\ UNCHANGED parts
              ELSE /\ parts' = <<Job(0, Len(haystacks), 0)>>
                   /\ pc' = "running"
                   /\ UNCHANGED ret

----------------------------------------------------------------------------
(* The similarity operation *)

NoParts == <<>>

\* similarity(s1, s2): lines 15-20
Similarity(s1, s2) ==
    /\ pc = "idle"
    /\ LET s1_set == trigrams(s1)
           s2_set == trigrams(s2)
       IN  /\ sets' = <<s1_set, s2_set>>
           /\ ret' = similarity_from_sets(s1_set, s2_set)
    /\ op' = "similarity"
    /\ args' = [s1 |-> s1, s2 |-> s2]
    /\ pc' = "done"
    /\ UNCHANGED parts

\* the caller takes the result; the sets built by the call are dropped
Return ==
    /\ pc = "done"
    /\ pc' = "idle"
    /\ op' = "none"
    /\ args' = <<>>
    /\ sets' = <<>>
    /\ parts' = NoParts
    /\ ret' = <<>>

Init ==
    /\ pc = "idle"
    /\ op = "none"
    /\ args = <<>>
    /\ sets = <<>>
    /\ parts = NoParts
    /\ ret = <<>>

\* the second text of a similarity call: a short text, or the first text again
Others(s1) == Texts(MaxOtherLen) \cup {s1}

\* a caller calls similarity with any two texts within the bounds
CallSimilarity ==
    /\ pc = "idle"
    /\ \E s1 \in Texts(MaxTextLen) : \E s2 \in Others(s1) : Similarity(s1, s2)

NextSim ==
    \/ CallSimilarity
    \/ Return

\* similarity alone, over all pairs of texts within the bounds
SpecSim == Init /\ [][NextSim]_vars

SimDone == pc = "done" /\ op = "similarity"

----------------------------------------------------------------------------
(* C7 - C10: properties of similarity *)

\* C7: similarity is symmetric: the score returned for (s1, s2) is the score of
\* (s2, s1).
C7_Symmetric ==
    SimDone => ret = similarity(args.s2, args.s1)

\* two texts with trigram sets of different sizes and a score strictly between
\* 0 and 1
C7_Witness ==
    /\ SimDone
    /\ Cardinality(sets[1]) # Cardinality(sets[2])
    /\ Gt(ret, F32(0, 1)) /\ Gt(F32(1, 1), ret)

HasWordChar(text) == \E i \in 1..Len(text) : IsWordChar(text[i])

\* the two texts are equal but for the case of their ASCII letters
DifferOnlyInCase(s, t) ==
    /\ Len(s) = Len(t)
    /\ \A i \in 1..Len(s) :
          \/ s[i] = t[i]
          \/ s[i] \in 65..90 /\ t[i] = s[i] + 32
          \/ t[i] \in 65..90 /\ s[i] = t[i] + 32

\* C8: a text with a letter or digit scores 1.0 against itself, and so do two
\* texts whose trigram sets are equal and not empty, such as texts that differ
\* only in letter case.
C8_IdenticalIsOne ==
    SimDone =>
        /\ (args.s1 = args.s2 /\ HasWordChar(args.s1)) => ret = F32(1, 1)
        /\ (sets[1] = sets[2] /\ sets[1] # {}) => ret = F32(1, 1)
        /\ (DifferOnlyInCase(args.s1, args.s2) /\ HasWordChar(args.s1)) => ret = F32(1, 1)

\* two different texts that differ only in case, scored 1.0
C8_Witness ==
    /\ SimDone
    /\ args.s1 # args.s2
    /\ DifferOnlyInCase(args.s1, args.s2)
    /\ HasWordChar(args.s1)
    /\ ret = F32(1, 1)

\* C9: the score is a number in [0.0, 1.0]; it is 0.0 when the union of the two
\* sets is empty, and otherwise |A /\ B| / |A \/ B| with
\* 0 <= |A /\ B| <= |A \/ B|.
C9_ScoreInRange ==
    SimDone =>
        LET shared == Cardinality(sets[1] \cap sets[2])
            total == Cardinality(sets[1] \cup sets[2])
        IN  /\ ret.den > 0
            /\ Ge(ret, F32(0, 1)) /\ Ge(F32(1, 1), ret)
            /\ total = 0 => ret = F32(0, 1)
            /\ total # 0 => (0 <= shared /\ shared <= total /\ ret = F32(shared, total))

\* two texts without letters or digits, not both the empty text, scored 0.0
C9_Witness ==
    /\ SimDone
    /\ sets[1] = {} /\ sets[2] = {}
    /\ args.s1 # <<>>
    /\ ret = F32(0, 1)

\* [i, j] is a maximal run of letters and digits of t
IsWordRun(t, i, j) ==
    /\ 1 <= i /\ i <= j /\ j <= Len(t)
    /\ \A k \in i..j : IsWordChar(t[k])
    /\ i = 1 \/ ~IsWordChar(t[i - 1])
    /\ j = Len(t) \/ ~IsWordChar(t[j + 1])

\* char m of the run [i, j] of t padded with two spaces before and one after
PaddedAt(t, i, j, m) ==
    IF m <= 2 \/ m > (j - i + 1) + 2 THEN 32 ELSE t[i + m - 3]

\* the encodings of the (j - i + 1) + 1 windows of the padded run [i, j]
RunWindows(t, i, j) ==
    {compact_trigram(PaddedAt(t, i, j, m), PaddedAt(t, i, j, m + 1), PaddedAt(t, i, j, m + 2)) :
        m \in 1..((j - i + 1) + 1)}

\* the encoded windows of all maximal runs of the normalised text
AllRunWindows(text) ==
    LET t == pg_downcase(text)
    IN  UNION {RunWindows(t, r[1], r[2]) :
                r \in {q \in (1..Len(t)) \X (1..Len(t)) : IsWordRun(t, q[1], q[2])}}

\* the normalised text is one run of pairwise different chars
OneRunOfDistinctChars(text) ==
    LET t == pg_downcase(text)
    IN  /\ t # <<>>
        /\ IsWordRun(t, 1, Len(t))
        /\ \A i, j \in 1..Len(t) : i # j => t[i] # t[j]

\* C10: the trigram set of a text is the set of encoded 3-char windows of each
\* maximal run of letters and digits of the normalised text, each run padded
\* with two leading and one trailing space and windowed on its own; a single
\* run of n different chars yields n + 1 trigrams; the set is empty exactly
\* when the text has no letter or digit.
C10_TrigramsAreRunWindows ==
    SimDone =>
        \A k \in 1..2 :
            LET text == IF k = 1 THEN args.s1 ELSE args.s2
            IN  /\ sets[k] = AllRunWindows(text)
                /\ OneRunOfDistinctChars(text) =>
                      Cardinality(sets[k]) = Len(pg_downcase(text)) + 1
                /\ sets[k] = {} <=> ~HasWordChar(text)

\* "a é": two runs, one of a two-byte char, four trigrams
C10_Witness ==
    /\ SimDone
    /\ args.s1 = <<97, 32, 233>>
    /\ Cardinality(sets[1]) = 4
    /\ <<32, 32, 97>> \in sets[1]
    /\ <<230, 155, 84>> \in sets[1]

----------------------------------------------------------------------------
(* The calls of the batch and search operations *)

RECURSIVE ListsOfLen(_, _)
ListsOfLen(S, n) ==
    IF n = 0 THEN {<<>>}
    ELSE {Append(l, x) : l \in ListsOfLen(S, n - 1), x \in S}

Lists(S, maxLen) == UNION {ListsOfLen(S, n) : n \in 0..maxLen}

\* the list of length n that repeats base
Cycle(base, n) == [i \in 1..n |-> base[((i - 1) % Len(base)) + 1]]

\* the lengths of the long lists: the longest of the sequential path, the
\* shortest of the parallel path
LongLens == {PARALLEL_THRESHOLD - 1, PARALLEL_THRESHOLD}

\* candidate lists: every short list of words, and long lists that alternate
\* two words
HaystackLists ==
    Lists(Words, MaxLen)
        \cup {Cycle(<<w1, w2>>, n) : w1 \in Words, w2 \in Words, n \in LongLens}

\* pair lists: every short list of pairs of words, and long lists whose first
\* strings alternate two words
PairLists ==
    Lists(Words \X Words, MaxPairs)
        \cup {Cycle(<<<<w1, w3>>, <<w2, w3>>>>, n) :
                w1 \in Words, w2 \in Words, w3 \in Words, n \in LongLens}

\* thresholds: 0.0, 0.25 (the score of "a" against "ab"), 1.0
Thresholds == {F32(0, 1), F32(1, 4), F32(1, 1)}

CallSimilarityBatch ==
    /\ pc = "idle"
    /\ \E pairs \in PairLists : similarity_batch(pairs)

CallBestMatch ==
    /\ pc = "idle"
    /\ \E needle \in Words : \E haystacks \in HaystackLists : best_match(needle, haystacks)

CallScoreAll ==
    /\ pc = "idle"
    /\ \E needle \in Words : \E haystacks \in HaystackLists :
          \E min_threshold \in Thresholds : score_all(needle, haystacks, min_threshold)

Next ==
    \/ CallSimilarityBatch
    \/ CallBestMatch
    \/ CallScoreAll
    \/ \E k \in 1..Len(parts) : Split(k)
    \/ \E k \in 1..Len(parts) : Work(k)
    \/ \E k \in 1..Len(parts) : Join(k)
    \/ Finish
    \/ Return

Spec == Init /\ [][Next]_vars

----------------------------------------------------------------------------
(* C1 - C6: properties of the batch and search operations *)

BatchDone == pc = "done" /\ op = "similarity_batch"
BestDone == pc = "done" /\ op = "best_match"
AllDone == pc = "done" /\ op = "score_all"

\* the similarity of the needle of the call with candidate idx (from 0)
ScoreOf(idx) == similarity(args.needle, args.haystacks[idx + 1])

\* C1: on the sequential and on the parallel path, however the jobs are split
\* and in whatever order they finish, similarity_batch returns one score per
\* pair, the i-th being similarity of the i-th pair.
C1_BatchMatchesSimilarity ==
    BatchDone =>
        /\ Len(ret) = Len(args.pairs)
        /\ \A i \in 1..Len(args.pairs) :
              ret[i] = similarity(args.pairs[i][1], args.pairs[i][2])

\* a batch of the parallel path whose pairs do not all score the same
C1_Witness ==
    /\ BatchDone
    /\ Len(args.pairs) >= PARALLEL_THRESHOLD
    /\ ret[1] # ret[2]
    /\ ret[Len(ret)] = similarity(args.pairs[Len(ret)][1], args.pairs[Len(ret)][2])

\* C2: for a non-empty list, on both paths, best_match returns (i, s) with s
\* the similarity of the needle with candidate i, s the greatest score of all
\* candidates, and i the lowest index with that score; it never returns the
\* sentinel (0, -1.0).
C2_BestIsLowestMax ==
    (BestDone /\ Len(args.haystacks) > 0) =>
        /\ ret.tag = "ok"
        /\ ret.index \in 0..(Len(args.haystacks) - 1)
        /\ LET scores == [i \in 1..Len(args.haystacks) |-> ScoreOf(i - 1)]
           IN  /\ ret.score = scores[ret.index + 1]
               /\ \A i \in 1..Len(scores) : Ge(ret.score, scores[i])
               /\ \A i \in 1..ret.index : scores[i] # ret.score
        /\ ret.score # init_acc.score

\* a call of the parallel path whose greatest score is shared by candidates of
\* both halves of the list, the first of them not at index 0
C2_Witness ==
    /\ BestDone
    /\ Len(args.haystacks) >= PARALLEL_THRESHOLD
    /\ ret.tag = "ok"
    /\ ret.index = 1
    /\ ScoreOf(Len(args.haystacks) - 1) = ret.score
    /\ ScoreOf(0) # ret.score

\* C3: the closure that combines partial best results is commutative: handing
\* two partial results to it in either order gives the same (index, score), the
\* tie between equal scores being decided by the indices.
C3_CombinerCommutative ==
    (pc = "running" /\ op = "best_match") =>
        \A k \in 1..(Len(parts) - 1) :
            (parts[k].done /\ parts[k + 1].done) =>
                ReduceOp(parts[k].val, parts[k + 1].val)
                    = ReduceOp(parts[k + 1].val, parts[k].val)

\* C4: best_match returns {error, empty_list} exactly when the list is empty,
\* and then no score; for a non-empty list it returns {ok, {index, score}}
\* with 0 <= index < length of the list.
C4_ErrorIffEmpty ==
    BestDone =>
        /\ ret.tag = "error" <=> Len(args.haystacks) = 0
        /\ ret.tag = "error" => (ret = [tag |-> "error", reason |-> "empty_list"] /\ sets = <<>>)
        /\ ret.tag # "error" =>
              /\ ret.tag = "ok"
              /\ DOMAIN ret = {"tag", "index", "score"}
              /\ 0 <= ret.index /\ ret.index < Len(args.haystacks)

\* the call with an empty list, answered by the error
C4_Witness ==
    /\ BestDone
    /\ args.haystacks = <<>>
    /\ ret.tag = "error"

\* C5: the list score_all returns is strictly ordered: of two adjacent entries
\* the first has the greater score, or the same score and the lower index; no
\* index appears twice.
C5_StrictlyOrdered ==
    AllDone =>
        /\ \A i \in 1..(Len(ret) - 1) :
              \/ Gt(ret[i].score, ret[i + 1].score)
              \/ ret[i].score = ret[i + 1].score /\ ret[i].idx < ret[i + 1].idx
        /\ Cardinality({ret[i].idx : i \in 1..Len(ret)}) = Len(ret)

\* a result of the parallel path with two scores, each shared by many entries
C5_Witness ==
    /\ AllDone
    /\ Len(args.haystacks) >= PARALLEL_THRESHOLD
    /\ Len(ret) = Len(args.haystacks)
    /\ ret[1].score = ret[2].score
    /\ ret[1].score # ret[Len(ret)].score
    /\ ret[Len(ret) - 1].score = ret[Len(ret)].score

\* C6: the indices score_all returns are exactly the indices of the candidates
\* whose similarity with the needle is >= min_threshold, and each comes with
\* that similarity.
C6_ExactlyAboveThreshold ==
    AllDone =>
        /\ {ret[i].idx : i \in 1..Len(ret)}
              = {idx \in 0..(Len(args.haystacks) - 1) : Ge(ScoreOf(idx), args.min_threshold)}
        /\ \A i \in 1..Len(ret) :
              /\ ret[i].score = ScoreOf(ret[i].idx)
              /\ Ge(ret[i].score, args.min_threshold)

\* a call where one candidate scores exactly the threshold and is returned, and
\* another scores less and is not
C6_Witness ==
    /\ AllDone
    /\ Gt(args.min_threshold, F32(0, 1))
    /\ Len(args.haystacks) >= 2
    /\ \E i \in 1..Len(ret) :
          ret[i].score = args.min_threshold /\ Gt(F32(1, 1), ret[i].score)
    /\ Len(ret) < Len(args.haystacks)

=============================================================================
